---- MODULE Spec2Model ----
(***************************************************************************)
(* Model of 6502ctl.ino: an ATmega drives the clock of a W65C02S, services *)
(* every bus cycle from a RAM array and a ROM image, and overlays a serial *)
(* step / continue / break / reset debugger.                               *)
(*                                                                         *)
(* The program is one sequential flow (setup(), then loop() forever) plus  *)
(* the USART receive interrupt of the Arduino core, which moves a received *)
(* byte from the UART data register into the buffer Serial.read() and      *)
(* Serial.available() look at.  The interrupt only runs while the global   *)
(* interrupt flag is set (sei/cli in the source).  `pc' is the position of *)
(* the sequential flow; every action is one statement of the source.       *)
(***************************************************************************)
EXTENDS Integers, Sequences, FiniteSets, TLC

(***************************************************************************)
(* Bounds of the model.                                                    *)
(***************************************************************************)
MaxInput == 3          \* bytes the operator sends over the serial line
MaxCount == 2          \* the edge and transaction counters saturate here
MaxCycles == 4         \* the transaction count of the s, s, c scenario saturates here

(***************************************************************************)
(* Program constants.                                                      *)
(***************************************************************************)
RESB_0_NCLK == 2
RESB_1_NCLK == 7
RAMSIZE == 4096
RAMMASK == RAMSIZE - 1
ROMSIZE == 24576
ROMBASE == 40960       \* 0xA000
WORD == 65536          \* uint16_t arithmetic

RAMADDR(a) == a < 4096
ROMADDR(a) == a >= ROMBASE

(***************************************************************************)
(* Input domains.  The bus addresses are: 0x0010 and 0x0FFF (RAM), 0x1010  *)
(* (unmapped gap; equal to 0x0010 under RAMMASK), 0xA000 (first ROM byte)  *)
(* and 0xFFFF (last ROM byte; equal to 0x0FFF under RAMMASK).              *)
(***************************************************************************)
BusAddr == {16, 4095, 4112, 40960, 65535}
Byte == {0, 66}                                  \* values seen on the data bus
BusOctl == { {"RWB"}, {"RWB", "SYNC", "MLB"}, {"MLB", "VPB"}, {"RWB", "VPB"} }
CmdByte == {"s", "c", "b", "r", "x"}             \* "x": any other byte
IctlPins == {"RDY", "IRQB", "NMIB", "SOB", "BE", "RESB", "PHI2"}

\* the RAM cells an address of BusAddr can select through RAMMASK
RamIdx == {a % RAMSIZE : a \in BusAddr}

\* content of the ROM image (6502rom.h): offset 0 holds 0xEA
rom(off) == IF off = 0 THEN 234 ELSE (off + 234) % 256

VARIABLES
    pc,          \* position of the sequential flow
    ictl,        \* P6502_ICTL(PORT): the set of input-control pins driven high
    dbus_ddr,    \* P6502_DBUS(DDR): "in" or "out"
    ints,        \* global interrupt enable
    serial_on,   \* Serial.begin() has run
    hw,          \* bytes in the UART receive register (RXC0 set iff non-empty)
    ring,        \* bytes in the receive buffer of Serial
    debug_step,
    ram,
    octl, addr, data,        \* locals of loop()
    rret, rphase, ri, rn,    \* reset() / clock_cycle(): return position, phase, i, n
    nin,         \* history: bytes sent so far
    lastCmd,     \* history: the byte that made the hook return last, "-" if none
    falls, rises, trans, \* history: PHI2 edges and bus transactions since lastCmd
    scen,        \* history: progress of the command sequence s, s, c
    ntrans,      \* history: bus transactions since startup while s, s, c is in progress
    shadow,      \* history: value of the last write cycle to each RAM address
    romOff,      \* history: last offset used to index rom[], -1 if none
    line,        \* history: transcript line of the current bus cycle
    hooked,      \* history: debug() was called in the current bus cycle
    rrises,      \* history: rising PHI2 edges in the current phase of reset()
    rfalls,      \* history: falling PHI2 edges in the current phase of reset()
    nlines,      \* history: transcript lines printed in the current bus cycle
    stepIn,      \* history: debug_step when debug() was entered in the current bus cycle
    seq,         \* history: statements of loop() executed in the current iteration
    served,      \* history: bus transactions serviced since the last rising PHI2 edge
    ncmd,        \* history: commands that took effect in the current bus cycle
    pend         \* history: bytes sent and not yet read, in order of arrival

vars == <<pc, ictl, dbus_ddr, ints, serial_on, hw, ring, debug_step, ram,
          octl, addr, data, rret, rphase, ri, rn,
          nin, lastCmd, falls, rises, trans, scen, ntrans, shadow, romOff, line,
          hooked, rrises, rfalls, nlines, stepIn, seq, served, ncmd, pend>>

NoLine == [none |-> TRUE]
Sat(n) == IF n < MaxCount THEN n + 1 ELSE MaxCount

(***************************************************************************)
(* Port helpers.                                                           *)
(***************************************************************************)
\* mutant: write_ictl writes the whole port
write_ictl_nomask(p, m, v) == v \cap m
write_ictl(p, m, v) == (p \ m) \cup (v \cap m)
\* mutant: the rising edge writes the low level
clock_rise_low(p) == write_ictl(p, {"PHI2"}, {})
clock_rise(p) == write_ictl(p, {"PHI2"}, IctlPins)
clock_fall(p) == write_ictl(p, {"PHI2"}, {})

(***************************************************************************)
(* Memory decoder.  rom[] is indexed with the 16-bit difference            *)
(* addr - 0xA000; read_data yields the set of values the read can return:  *)
(* one value inside the arrays, any byte for an index past the ROM image.  *)
(***************************************************************************)
RomIndex(a) == (a - ROMBASE) % WORD
read_data(m, a) ==
    IF RAMADDR(a) THEN {m[a % RAMSIZE]}
    ELSE IF RomIndex(a) < ROMSIZE THEN {rom(RomIndex(a))}
    ELSE Byte
\* mutant: the RAM test of write_data is inverted
write_data_inverted(m, a, d) ==
    IF RAMADDR(a) THEN m ELSE [m EXCEPT ![a % RAMSIZE] = d]
\* mutant: write_data stores without the RAM test
write_data_unguarded(m, a, d) == [m EXCEPT ![a % RAMSIZE] = d]
write_data(m, a, d) ==
    IF RAMADDR(a) THEN [m EXCEPT ![a % RAMSIZE] = d] ELSE m
\* the offset read_data(a) uses on rom[], or the previous one for a RAM read
RomAccess(prev, a) == IF RAMADDR(a) THEN prev ELSE RomIndex(a)

\* disasm(read_data, addr, disbuf): the disassembler reads the opcode at addr
\* through read_data and renders it; the text is kept as the opcode read
disasm(m, a) == {<<op>> : op \in read_data(m, a)}

(***************************************************************************)
(* Debugger decisions.                                                     *)
(***************************************************************************)
\* debug_available(): debug_step || (UCSR0A & (1 << RXC0))
debug_available(step, uart) == step \/ uart # <<>>
\* mutant: debug() prints the transcript line on every call
debug_prints_always(step) == TRUE
\* if (debug_step): debug() prints the transcript line
debug_prints(step) == step
\* mutant: the loop of debug() always waits for another byte
debug_waits_always(step, buf) == TRUE
\* the condition of the while loop of debug()
debug_waits(step, buf) == step \/ buf # <<>>
\* mutant: 'b' sets debug_step but does not leave the loop
Resolves_bBreaks(c, step) ==
    \/ c = "s" /\ step
    \/ c = "c" /\ step
    \/ c = "r"
\* mutant: 'c' clears debug_step but does not leave the loop
Resolves_cStays(c, step) ==
    \/ c = "s" /\ step
    \/ c = "b" /\ ~step
    \/ c = "r"
\* mutant: while stepping every byte leaves the loop
Resolves_any(c, step) == step \/ c = "r" \/ (c = "b" /\ ~step)
\* the switch of debug(): does byte c reach "goto exit"?
Resolves(c, step) ==
    \/ c = "s" /\ step
    \/ c = "c" /\ step
    \/ c = "b" /\ ~step
    \/ c = "r"
\* mutant: 's' clears debug_step as 'c' does
StepAfter_sClears(c, step) ==
    IF c \in {"s", "c"} /\ step THEN FALSE
    ELSE IF c = "b" /\ ~step THEN TRUE
    ELSE step
\* mutant: 'r' returns the debugger to stepping
StepAfter_rSteps(c, step) ==
    IF c = "c" /\ step THEN FALSE
    ELSE IF c = "b" /\ ~step THEN TRUE
    ELSE IF c = "r" THEN TRUE
    ELSE step
\* the switch of debug(): debug_step after byte c
StepAfter(c, step) ==
    IF c = "c" /\ step THEN FALSE
    ELSE IF c = "b" /\ ~step THEN TRUE
    ELSE step
\* mutant: 'M' and 'V' are printed for a high MLB and VPB
Transcript_highMV(o, a, d, dis) ==
    [rw   |-> IF "RWB" \in o THEN "r" ELSE "W",
     sync |-> IF "SYNC" \in o THEN "S" ELSE "-",
     ml   |-> IF "MLB" \in o THEN "M" ELSE "-",
     vp   |-> IF "VPB" \in o THEN "V" ELSE "-",
     addr |-> a,
     data |-> d,
     dis  |-> IF "SYNC" \in o THEN dis ELSE <<>>]
\* the transcript line of snprintf(), the disassembly as a list of opcodes
Transcript(o, a, d, dis) ==
    [rw   |-> IF "RWB" \in o THEN "r" ELSE "W",
     sync |-> IF "SYNC" \in o THEN "S" ELSE "-",
     ml   |-> IF "MLB" \in o THEN "-" ELSE "M",
     vp   |-> IF "VPB" \in o THEN "-" ELSE "V",
     addr |-> a,
     data |-> d,
     dis  |-> IF "SYNC" \in o THEN dis ELSE <<>>]

(***************************************************************************)
(* History helpers.                                                        *)
(***************************************************************************)
Rose(p, q) == "PHI2" \notin p /\ "PHI2" \in q
Fell(p, q) == "PHI2" \in p /\ "PHI2" \notin q
Edges(p, q) ==
    /\ rises' = IF Rose(p, q) THEN Sat(rises) ELSE rises
    /\ falls' = IF Fell(p, q) THEN Sat(falls) ELSE falls
\* byte c is a command that takes effect: step, continue, break or reset
Effective(c, step) ==
    \/ c \in {"s", "c"} /\ step
    \/ c = "b" /\ ~step
    \/ c = "r"
\* progress along the command sequence s, s, c; -1 once another command resolved
ScenAfter(k, c) ==
    IF k \in {0, 1} /\ c = "s" THEN k + 1
    ELSE IF k = 2 /\ c = "c" THEN 3
    ELSE -1

\* the receive interrupt is pending: it runs before the next statement
IsrPending == ints /\ hw # <<>>
At(p) == pc = p /\ ~IsrPending

Init ==
    /\ pc = "setup"
    /\ ictl = {}
    /\ dbus_ddr = "in"
    /\ ints = TRUE
    /\ serial_on = FALSE
    /\ hw = <<>>
    /\ ring = <<>>
    /\ debug_step = TRUE
    /\ ram = [i \in RamIdx |-> 0]
    /\ octl = {}
    /\ addr = 0
    /\ data = 0
    /\ rret = "header"
    /\ rphase = 0
    /\ ri = 0
    /\ rn = 0
    /\ nin = 0
    /\ lastCmd = "-"
    /\ falls = 0
    /\ rises = 0
    /\ trans = 0
    /\ scen = 0
    /\ ntrans = 0
    /\ shadow = [a \in {b \in BusAddr : RAMADDR(b)} |-> 0]
    /\ romOff = -1
    /\ line = NoLine
    /\ hooked = FALSE
    /\ rrises = 0
    /\ rfalls = 0
    /\ nlines = 0
    /\ stepIn = FALSE
    /\ seq = <<>>
    /\ served = 0
    /\ ncmd = 0
    /\ pend = <<>>

(***************************************************************************)
(* setup()                                                                 *)
(***************************************************************************)
Setup ==
    /\ At("setup")
    /\ ictl' = write_ictl(ictl, IctlPins, {"RDY", "IRQB", "NMIB", "SOB", "BE"})
    /\ dbus_ddr' = "in"
    /\ rret' = "header"
    /\ pc' = "reset"
    /\ UNCHANGED <<ints, serial_on, hw, ring, debug_step, ram, octl, addr, data,
                   rphase, ri, rn, nin, lastCmd, falls, rises, trans, scen,
                   ntrans, shadow, romOff, line>>
    /\ UNCHANGED <<hooked, rrises, rfalls, nlines, stepIn, seq, served, ncmd, pend>>

DebugHeader ==
    /\ At("header")
    /\ serial_on' = TRUE
    /\ pc' = "cli"
    /\ UNCHANGED <<ictl, dbus_ddr, ints, hw, ring, debug_step, ram, octl, addr,
                   data, rret, rphase, ri, rn, nin, lastCmd, falls, rises,
                   trans, scen, ntrans, shadow, romOff, line>>
    /\ UNCHANGED <<hooked, rrises, rfalls, nlines, stepIn, seq, served, ncmd, pend>>

(***************************************************************************)
(* reset() and clock_cycle(n): RESB low, n clock cycles, RESB high, n      *)
(* clock cycles, return to the caller (setup() or debug()).                *)
(***************************************************************************)
\* mutant: reset() clears the RAM
ResetLow_clearsRam ==
    /\ At("reset")
    /\ ictl' = write_ictl(ictl, {"RESB"}, {})
    /\ rphase' = 0
    /\ ri' = 0
    /\ rn' = RESB_0_NCLK
    /\ pc' = "cc_rise"
    /\ UNCHANGED <<dbus_ddr, ints, serial_on, hw, ring, debug_step, octl,
                   addr, data, rret, nin, lastCmd, falls, rises, trans, scen,
                   ntrans, shadow, romOff, line>>
    /\ rrises' = 0
    /\ rfalls' = 0
    /\ ram' = [i \in RamIdx |-> 0]
    /\ UNCHANGED <<hooked, nlines, stepIn, seq, served, ncmd, pend>>

ResetLow ==
    /\ At("reset")
    /\ ictl' = write_ictl(ictl, {"RESB"}, {})
    /\ rphase' = 0
    /\ ri' = 0
    /\ rn' = RESB_0_NCLK
    /\ pc' = "cc_rise"
    /\ UNCHANGED <<dbus_ddr, ints, serial_on, hw, ring, debug_step, ram, octl,
                   addr, data, rret, nin, lastCmd, falls, rises, trans, scen,
                   ntrans, shadow, romOff, line>>
    /\ rrises' = 0
    /\ rfalls' = 0
    /\ UNCHANGED <<hooked, nlines, stepIn, seq, served, ncmd, pend>>

ResetHigh ==
    /\ At("reset_high")
    /\ ictl' = write_ictl(ictl, {"RESB"}, IctlPins)
    /\ rphase' = 1
    /\ ri' = 0
    /\ rn' = RESB_1_NCLK
    /\ pc' = "cc_rise"
    /\ UNCHANGED <<dbus_ddr, ints, serial_on, hw, ring, debug_step, ram, octl,
                   addr, data, rret, nin, lastCmd, falls, rises, trans, scen,
                   ntrans, shadow, romOff, line>>
    /\ rrises' = 0
    /\ rfalls' = 0
    /\ UNCHANGED <<hooked, nlines, stepIn, seq, served, ncmd, pend>>

ClockCycleRise ==
    /\ At("cc_rise")
    /\ ictl' = clock_rise(ictl)
    /\ Edges(ictl, ictl')
    /\ pc' = "cc_fall"
    /\ UNCHANGED <<dbus_ddr, ints, serial_on, hw, ring, debug_step, ram, octl,
                   addr, data, rret, rphase, ri, rn, nin, lastCmd, trans, scen,
                   ntrans, shadow, romOff, line>>
    /\ rrises' = IF Rose(ictl, ictl') THEN rrises + 1 ELSE rrises
    /\ served' = IF Rose(ictl, ictl') THEN 0 ELSE served
    /\ UNCHANGED <<hooked, rfalls, nlines, stepIn, seq, ncmd, pend>>

ClockCycleFall ==
    /\ At("cc_fall")
    /\ ictl' = clock_fall(ictl)
    /\ Edges(ictl, ictl')
    /\ ri' = ri + 1
    /\ pc' = IF rn > ri + 1 THEN "cc_rise"
             ELSE IF rphase = 0 THEN "reset_high"
             ELSE rret
    /\ UNCHANGED <<dbus_ddr, ints, serial_on, hw, ring, debug_step, ram, octl,
                   addr, data, rret, rphase, rn, nin, lastCmd, trans, scen,
                   ntrans, shadow, romOff, line>>
    /\ rfalls' = IF Fell(ictl, ictl') THEN rfalls + 1 ELSE rfalls
    /\ UNCHANGED <<hooked, rrises, nlines, stepIn, seq, served, ncmd, pend>>

(***************************************************************************)
(* loop()                                                                  *)
(***************************************************************************)
LoopCli ==
    /\ At("cli")
    /\ ints' = FALSE
    /\ pc' = "rise"
    /\ UNCHANGED <<ictl, dbus_ddr, serial_on, hw, ring, debug_step, ram, octl,
                   addr, data, rret, rphase, ri, rn, nin, lastCmd, falls,
                   rises, trans, scen, ntrans, shadow, romOff, line>>
    /\ UNCHANGED <<hooked, rrises, rfalls, nlines, stepIn, seq, served, ncmd, pend>>

LoopRise ==
    /\ At("rise")
    /\ ictl' = clock_rise(ictl)
    /\ Edges(ictl, ictl')
    /\ romOff' = -1
    /\ line' = NoLine
    /\ pc' = "octl"
    /\ UNCHANGED <<dbus_ddr, ints, serial_on, hw, ring, debug_step, ram, octl,
                   addr, data, rret, rphase, ri, rn, nin, lastCmd, trans, scen,
                   ntrans, shadow>>
    /\ hooked' = FALSE
    /\ nlines' = 0
    /\ stepIn' = FALSE
    /\ seq' = <<"rise">>
    /\ served' = IF Rose(ictl, ictl') THEN 0 ELSE served
    /\ ncmd' = 0
    /\ UNCHANGED <<rrises, rfalls, pend>>

LoopOctl ==
    /\ At("octl")
    /\ \E o \in BusOctl : octl' = o
    /\ pc' = "abus"
    /\ UNCHANGED <<ictl, dbus_ddr, ints, serial_on, hw, ring, debug_step, ram,
                   addr, data, rret, rphase, ri, rn, nin, lastCmd, falls,
                   rises, trans, scen, ntrans, shadow, romOff, line>>
    /\ seq' = Append(seq, "octl")
    /\ UNCHANGED <<hooked, rrises, rfalls, nlines, stepIn, served, ncmd, pend>>

LoopAbus ==
    /\ At("abus")
    /\ \E a \in BusAddr : addr' = a
    /\ pc' = "xfer"
    /\ UNCHANGED <<ictl, dbus_ddr, ints, serial_on, hw, ring, debug_step, ram,
                   octl, data, rret, rphase, ri, rn, nin, lastCmd, falls,
                   rises, trans, scen, ntrans, shadow, romOff, line>>
    /\ seq' = Append(seq, "abus")
    /\ UNCHANGED <<hooked, rrises, rfalls, nlines, stepIn, served, ncmd, pend>>

\* the data transfer of the cycle: lines 298-314
LoopXfer ==
    /\ At("xfer")
    /\ IF "RWB" \in octl
       THEN IF RAMADDR(addr) \/ ROMADDR(addr)
            THEN /\ data' \in read_data(ram, addr)
                 /\ romOff' = RomAccess(romOff, addr)
                 /\ dbus_ddr' = "out"
                 /\ UNCHANGED <<ram, shadow>>
            ELSE /\ data' \in Byte
                 /\ dbus_ddr' = "in"
                 /\ UNCHANGED <<ram, shadow, romOff>>
       ELSE /\ data' \in Byte
            /\ dbus_ddr' = "in"
            /\ ram' = write_data(ram, addr, data')
            /\ shadow' = IF addr \in DOMAIN shadow
                         THEN [shadow EXCEPT ![addr] = data']
                         ELSE shadow
            /\ UNCHANGED romOff
    /\ trans' = Sat(trans)
    /\ ntrans' = IF scen \in {0, 1, 2} /\ ntrans < MaxCycles THEN ntrans + 1 ELSE ntrans
    /\ pc' = "check"
    /\ UNCHANGED <<ictl, ints, serial_on, hw, ring, debug_step, octl, addr,
                   rret, rphase, ri, rn, nin, lastCmd, falls, rises, scen, line>>
    /\ seq' = Append(seq, "xfer")
    /\ served' = served + 1
    /\ UNCHANGED <<hooked, rrises, rfalls, nlines, stepIn, ncmd, pend>>

\* mutant: without a call of debug() the data bus is not released
LoopCheck_skipsRelease ==
    /\ At("check")
    /\ pc' = IF debug_available(debug_step, hw) THEN "sei" ELSE "fall"
    /\ UNCHANGED <<ictl, dbus_ddr, ints, serial_on, hw, ring, debug_step, ram,
                   octl, addr, data, rret, rphase, ri, rn, nin, lastCmd, falls,
                   rises, trans, scen, ntrans, shadow, romOff, line>>
    /\ seq' = Append(seq, "check")
    /\ UNCHANGED <<hooked, rrises, rfalls, nlines, stepIn, served, ncmd, pend>>

\* if (debug_available()) debug(addr, data, octl);
LoopCheck ==
    /\ At("check")
    /\ pc' = IF debug_available(debug_step, hw) THEN "sei" ELSE "tristate"
    /\ UNCHANGED <<ictl, dbus_ddr, ints, serial_on, hw, ring, debug_step, ram,
                   octl, addr, data, rret, rphase, ri, rn, nin, lastCmd, falls,
                   rises, trans, scen, ntrans, shadow, romOff, line>>
    /\ seq' = Append(seq, "check")
    /\ UNCHANGED <<hooked, rrises, rfalls, nlines, stepIn, served, ncmd, pend>>

LoopTristate ==
    /\ At("tristate")
    /\ dbus_ddr' = "in"
    /\ pc' = "fall"
    /\ UNCHANGED <<ictl, ints, serial_on, hw, ring, debug_step, ram, octl,
                   addr, data, rret, rphase, ri, rn, nin, lastCmd, falls,
                   rises, trans, scen, ntrans, shadow, romOff, line>>
    /\ seq' = Append(seq, "tristate")
    /\ UNCHANGED <<hooked, rrises, rfalls, nlines, stepIn, served, ncmd, pend>>

LoopFall ==
    /\ At("fall")
    /\ ictl' = clock_fall(ictl)
    /\ Edges(ictl, ictl')
    /\ pc' = "rise"
    /\ UNCHANGED <<dbus_ddr, ints, serial_on, hw, ring, debug_step, ram, octl,
                   addr, data, rret, rphase, ri, rn, nin, lastCmd, trans, scen,
                   ntrans, shadow, romOff, line>>
    /\ seq' = Append(seq, "fall")
    /\ UNCHANGED <<hooked, rrises, rfalls, nlines, stepIn, served, ncmd, pend>>

(***************************************************************************)
(* debug()                                                                 *)
(***************************************************************************)
DebugSei ==
    /\ pc = "sei"
    /\ ints' = TRUE
    /\ pc' = IF debug_prints(debug_step) THEN "print" ELSE "while"
    /\ UNCHANGED <<ictl, dbus_ddr, serial_on, hw, ring, debug_step, ram, octl,
                   addr, data, rret, rphase, ri, rn, nin, lastCmd, falls,
                   rises, trans, scen, ntrans, shadow, romOff, line>>
    /\ hooked' = TRUE
    /\ stepIn' = debug_step
    /\ UNCHANGED <<rrises, rfalls, nlines, seq, served, ncmd, pend>>

\* if (SYNC) disasm(read_data, addr, disbuf); snprintf(...); Serial.println(serbuf);
DebugPrint ==
    /\ At("print")
    /\ IF "SYNC" \in octl
       THEN /\ \E disbuf \in disasm(ram, addr) :
                 line' = Transcript(octl, addr, data, disbuf)
            /\ romOff' = RomAccess(romOff, addr)
       ELSE /\ line' = Transcript(octl, addr, data, <<>>)
            /\ UNCHANGED romOff
    /\ pc' = "while"
    /\ UNCHANGED <<ictl, dbus_ddr, ints, serial_on, hw, ring, debug_step, ram,
                   octl, addr, data, rret, rphase, ri, rn, nin, lastCmd, falls,
                   rises, trans, scen, ntrans, shadow>>
    /\ nlines' = nlines + 1
    /\ UNCHANGED <<hooked, rrises, rfalls, stepIn, seq, served, ncmd, pend>>

\* while (debug_step || Serial.available())
DebugWhile ==
    /\ At("while")
    /\ pc' = IF debug_waits(debug_step, ring) THEN "read" ELSE "exit"
    /\ UNCHANGED <<ictl, dbus_ddr, ints, serial_on, hw, ring, debug_step, ram,
                   octl, addr, data, rret, rphase, ri, rn, nin, lastCmd, falls,
                   rises, trans, scen, ntrans, shadow, romOff, line>>
    /\ UNCHANGED <<hooked, rrises, rfalls, nlines, stepIn, seq, served, ncmd, pend>>

\* while (-1 == (c = Serial.read())) ; switch (c) ...
DebugRead ==
    /\ At("read")
    /\ ring # <<>>
    /\ LET c == Head(ring) IN
       /\ ring' = Tail(ring)
       /\ debug_step' = StepAfter(c, debug_step)
       /\ IF Resolves(c, debug_step)
          THEN /\ lastCmd' = c
               /\ falls' = 0
               /\ rises' = 0
               /\ trans' = 0
               /\ scen' = ScenAfter(scen, c)
               /\ ntrans' = IF scen' = -1 THEN 0 ELSE ntrans
               /\ rret' = "exit"
               /\ pc' = IF c = "r" THEN "reset" ELSE "exit"
          ELSE /\ pc' = "while"
               /\ UNCHANGED <<lastCmd, falls, rises, trans, scen, ntrans, rret>>
    /\ UNCHANGED <<ictl, dbus_ddr, ints, serial_on, hw, ram, octl, addr, data,
                   rphase, ri, rn, nin, shadow, romOff, line>>
    /\ ncmd' = IF Effective(Head(ring), debug_step) THEN ncmd + 1 ELSE ncmd
    /\ pend' = Tail(pend)
    /\ UNCHANGED <<hooked, rrises, rfalls, nlines, stepIn, seq, served>>

\* exit: cli();
DebugExit ==
    /\ At("exit")
    /\ ints' = FALSE
    /\ pc' = "tristate"
    /\ UNCHANGED <<ictl, dbus_ddr, serial_on, hw, ring, debug_step, ram, octl,
                   addr, data, rret, rphase, ri, rn, nin, lastCmd, falls,
                   rises, trans, scen, ntrans, shadow, romOff, line>>
    /\ UNCHANGED <<hooked, rrises, rfalls, nlines, stepIn, seq, served, ncmd, pend>>

(***************************************************************************)
(* The serial line and the receive interrupt.                              *)
(***************************************************************************)
Arrive ==
    /\ serial_on
    /\ nin < MaxInput
    /\ \E b \in CmdByte : hw' = Append(hw, b)
    /\ nin' = nin + 1
    /\ UNCHANGED <<pc, ictl, dbus_ddr, ints, serial_on, ring, debug_step, ram,
                   octl, addr, data, rret, rphase, ri, rn, lastCmd, falls,
                   rises, trans, scen, ntrans, shadow, romOff, line>>
    /\ pend' = Append(pend, hw'[Len(hw')])
    /\ UNCHANGED <<hooked, rrises, rfalls, nlines, stepIn, seq, served, ncmd>>

RxIsr ==
    /\ IsrPending
    /\ ring' = Append(ring, Head(hw))
    /\ hw' = Tail(hw)
    /\ UNCHANGED <<pc, ictl, dbus_ddr, ints, serial_on, debug_step, ram, octl,
                   addr, data, rret, rphase, ri, rn, nin, lastCmd, falls,
                   rises, trans, scen, ntrans, shadow, romOff, line>>
    /\ UNCHANGED <<hooked, rrises, rfalls, nlines, stepIn, seq, served, ncmd, pend>>

Next ==
    \/ Setup
    \/ DebugHeader
    \/ ResetLow
    \/ ResetHigh
    \/ ClockCycleRise
    \/ ClockCycleFall
    \/ LoopCli
    \/ LoopRise
    \/ LoopOctl
    \/ LoopAbus
    \/ LoopXfer
    \/ LoopCheck
    \/ LoopTristate
    \/ LoopFall
    \/ DebugSei
    \/ DebugPrint
    \/ DebugWhile
    \/ DebugRead
    \/ DebugExit
    \/ Arrive
    \/ RxIsr

Spec == Init /\ [][Next]_vars

TypeOK ==
    /\ ictl \subseteq IctlPins
    /\ dbus_ddr \in {"in", "out"}
    /\ debug_step \in BOOLEAN
    /\ ram \in [RamIdx -> Byte \cup {0}]
    /\ nin \in 0..MaxInput

(***************************************************************************)
(* Vocabulary of the properties.                                           *)
(***************************************************************************)
\* debug() spins on Serial.read() with nothing to read
Blocked == pc = "read" /\ ring = <<>>
\* debug() is in its command loop
InWait == pc \in {"while", "read"}
ResetPcs == {"reset", "cc_rise", "cc_fall", "reset_high"}
\* this step is debug() taking byte c out of the receive buffer
Consumes(c) == pc = "read" /\ ring # <<>> /\ Head(ring) = c /\ ring' = Tail(ring)
\* the bytes the command table does not act on
Unresolving(c, step) ==
    \/ c \notin {"s", "c", "b", "r"}
    \/ c = "b" /\ step
    \/ c \in {"s", "c"} /\ ~step

\* C1: after 's' resolved the wait in stepping mode, exactly one bus cycle
\* runs: one PHI2 fall, then one PHI2 rise, then one bus transaction, and
\* debug() waits again with debug_step still set; nothing more happens until
\* another byte resolves.
C1_StepOneCycle ==
    lastCmd = "s" =>
        /\ debug_step
        /\ falls <= 1
        /\ rises <= falls
        /\ trans <= rises
        /\ (InWait => trans = 1)
C1_Witness ==
    Blocked /\ lastCmd = "s" /\ falls = 1 /\ rises = 1 /\ trans = 1

\* C2: 'c' taken while stepping clears debug_step and leaves debug(); only
\* 'b' sets debug_step again, and while it is clear debug() never spins on an
\* empty buffer.  When the commands resolved since startup are exactly
\* s, s, c, three bus transactions have run (the cycle of the first wait and
\* one per 's') and debug_step is clear.
C2_Continue ==
    [][ /\ (Consumes("c") /\ debug_step => ~debug_step' /\ pc' = "exit")
        /\ (~debug_step /\ debug_step' => Consumes("b"))
        /\ (~debug_step' => ~Blocked')
        /\ (scen' = 3 => ntrans' = 3 /\ ~debug_step') ]_vars
C2_Witness ==
    scen = 3 /\ ~debug_step /\ pc = "check" /\ trans >= 2 /\ nin = 3

\* C3: 'b' taken while running sets debug_step and leaves debug() at once;
\* the cycle ends without a wait, and after one PHI2 fall, one rise and one
\* bus transaction debug() waits, before any second transaction.
C3_Break ==
    [][ /\ (Consumes("b") /\ ~debug_step => debug_step' /\ pc' = "exit")
        /\ (lastCmd' = "b" =>
               /\ debug_step'
               /\ falls' <= 1
               /\ rises' <= falls'
               /\ trans' <= rises'
               /\ (InWait' => trans' = 1)) ]_vars
C3_Witness ==
    Blocked /\ lastCmd = "b" /\ trans = 1

\* C4: 'r' is acted on whatever debug_step is: reset() is entered from
\* debug(), keeps debug_step and services no bus transaction, passes from
\* its RESB-low phase to its RESB-high phase after RESB_0_NCLK cycles and
\* returns only after RESB_1_NCLK more, with RESB high.
C4_Reset ==
    [][ /\ (Consumes("r") =>
               pc' = "reset" /\ rret' = "exit" /\ debug_step' = debug_step)
        /\ (pc \in ResetPcs =>
               /\ debug_step' = debug_step
               /\ trans' = trans
               /\ ram' = ram
               /\ pc' \in ResetPcs \cup {rret})
        /\ (pc \in ResetPcs /\ pc' = "reset_high" =>
               rphase = 0 /\ ri' = RESB_0_NCLK /\ "RESB" \notin ictl')
        /\ (pc \in ResetPcs /\ pc' \notin ResetPcs =>
               rphase = 1 /\ ri' = RESB_1_NCLK /\ "RESB" \in ictl') ]_vars
C4_Witness ==
    pc = "tristate" /\ lastCmd = "r" /\ ~debug_step /\ trans = 0
        /\ rphase = 1 /\ ri = RESB_1_NCLK

\* C5: debug() is called in a bus cycle if and only if debug_step is set or
\* a byte is pending: a call finds debug_step set or a byte pending, and a
\* cycle that skipped the call has debug_step clear and no byte buffered.
C5_HookIffPending ==
    /\ (pc = "sei" => debug_step \/ hw # <<>> \/ ring # <<>>)
    /\ (pc = "tristate" /\ ~hooked => ~debug_step /\ ring = <<>>)

\* C6: a byte the command table does not act on is dropped with debug_step,
\* RAM and the control lines unchanged and the loop of debug() continues;
\* while stepping the loop changes no control line and is left only by taking
\* 's', 'c' or 'r'.
C6_Discard ==
    [][ /\ (\E c \in CmdByte : Consumes(c) /\ Unresolving(c, debug_step)) =>
               pc' = "while" /\ UNCHANGED <<debug_step, ram, ictl>>
        /\ (InWait /\ debug_step =>
               /\ ictl' = ictl
               /\ (~InWait' => \E c \in {"s", "c", "r"} : Consumes(c))) ]_vars
C6_Witness ==
    Blocked /\ debug_step /\ lastCmd = "-" /\ nin >= 1 /\ hw = <<>>

\* C7: a read cycle of a RAM address returns the value of the last write
\* cycle to that address, 0 if there was none.
C7_ReadLastWrite ==
    (pc = "check" /\ "RWB" \in octl /\ RAMADDR(addr)) => data = shadow[addr]
C7_Witness ==
    /\ pc = "check" /\ "RWB" \in octl /\ addr = 16 /\ data = 66
    /\ shadow[4095] = 66 /\ lastCmd = "r"

\* C8: a write cycle to an address >= 0x1000 leaves every RAM byte as it
\* was, and a read cycle of an address >= 0xA000 returns the ROM byte at
\* offset address - 0xA000.
C8_RomReadOnly ==
    [][ /\ (pc = "xfer" /\ "RWB" \notin octl /\ addr >= 4096 => ram' = ram)
        /\ (pc' = "check" /\ "RWB" \in octl' /\ addr' >= ROMBASE =>
               data' = rom(addr' - ROMBASE)) ]_vars
C8_Witness ==
    /\ pc = "check" /\ "RWB" \notin octl /\ addr = 65535 /\ data = 66
    /\ ram[4095] = 0 /\ shadow[4095] = 0

\* C9: every index read_data uses on rom[] lies in 0..ROMSIZE-1.
C9_RomInBounds == romOff = -1 \/ romOff \in 0..(ROMSIZE - 1)

\* C10 as stated: PHI2 is low whenever debug() waits for a byte.
C10_BlockedLow == Blocked => "PHI2" \notin ictl
\* C10 as amended: PHI2 is high whenever debug() waits for a byte.
C10_BlockedHigh == Blocked => "PHI2" \in ictl
C10_Witness == Blocked /\ lastCmd = "-" /\ nin = 0

\* C11: every run of reset() makes exactly RESB_0_NCLK rising and as many
\* falling PHI2 edges while RESB is low, then exactly RESB_1_NCLK of each
\* while RESB is high, and returns with RESB high.
C11_ResetEdges ==
    /\ (pc = "reset_high" =>
           rrises = RESB_0_NCLK /\ rfalls = RESB_0_NCLK /\ "RESB" \notin ictl)
    /\ (pc \notin ResetPcs \cup {"setup"} =>
           rrises = RESB_1_NCLK /\ rfalls = RESB_1_NCLK /\ "RESB" \in ictl)

\* C12 as stated: in a transcript line the first flag is 'r' iff RWB is
\* high, the second 'S' iff SYNC is high, the third 'M' iff MLB is high, the
\* fourth 'V' iff VPB is high, and the disassembly is present iff SYNC is
\* high.
C12_FlagsAsStated ==
    line # NoLine =>
        /\ line.rw = (IF "RWB" \in octl THEN "r" ELSE "W")
        /\ line.sync = (IF "SYNC" \in octl THEN "S" ELSE "-")
        /\ line.ml = (IF "MLB" \in octl THEN "M" ELSE "-")
        /\ line.vp = (IF "VPB" \in octl THEN "V" ELSE "-")
        /\ (line.dis # <<>> <=> "SYNC" \in octl)
\* C12 as amended: the third flag is 'M' iff MLB is low and the fourth 'V'
\* iff VPB is low; the other fields are as stated.
C12_FlagsAsPrinted ==
    line # NoLine =>
        /\ line.rw = (IF "RWB" \in octl THEN "r" ELSE "W")
        /\ line.sync = (IF "SYNC" \in octl THEN "S" ELSE "-")
        /\ line.ml = (IF "MLB" \in octl THEN "-" ELSE "M")
        /\ line.vp = (IF "VPB" \in octl THEN "-" ELSE "V")
        /\ (line.dis # <<>> <=> "SYNC" \in octl)
C12_Witness ==
    line # NoLine /\ octl = {"RWB", "VPB"} /\ line.ml = "M" /\ line.vp = "-"

\* C13 as stated: every call of debug() prints exactly one transcript line for
\* the cycle, and prints it before it consumes any byte.
C13_LinePerEntry ==
    /\ (hooked /\ pc # "print" => nlines = 1)
    /\ (pc = "print" => nlines = 0)

\* C13 as amended: a call of debug() made while stepping prints exactly one
\* transcript line, before it consumes any byte; a call made while running
\* (entered for a pending byte) prints none.
C13_LineIffStepping ==
    [][ /\ (hooked' /\ pc' # "print" => nlines' = IF stepIn' THEN 1 ELSE 0)
        /\ (pc' = "print" => nlines' = 0 /\ stepIn')
        /\ (hooked /\ stepIn /\ Len(ring') < Len(ring) => nlines = 1)
        /\ (pc = "print" => Len(ring') >= Len(ring)) ]_vars
C13_Witness ==
    hooked /\ stepIn /\ nlines = 1 /\ line # NoLine /\ pc = "exit" /\ lastCmd = "s"

\* C14: no step of the reset sequence, whether started by setup() or by the
\* command 'r' (the read of the byte included), changes a byte of RAM or
\* debug_step.
C14_ResetFrame ==
    [][(pc \in ResetPcs \/ Consumes("r")) =>
           ram' = ram /\ debug_step' = debug_step]_vars
C14_Witness ==
    /\ pc = "exit" /\ lastCmd = "r" /\ rphase = 1 /\ ri = RESB_1_NCLK
    /\ ram[16] = 66 /\ ~debug_step
\* the statements of the body of loop(), and control being inside debug()
LoopOrder == <<"rise", "octl", "abus", "xfer", "check", "tristate", "fall">>
InHook == pc \in {"sei", "print", "while", "read", "exit"} \/ (pc \in ResetPcs /\ rret = "exit")

\* C15: every iteration of loop() executes, once each and in this order: PHI2
\* high, control lines sampled, address sampled, data transfer, hook check and
\* call, data bus released, PHI2 low; debug() runs after the transfer and
\* before the release, so a write to RAM is stored before debug() can block.
C15_LoopOrder ==
    /\ \E n \in 0..Len(LoopOrder) : seq = SubSeq(LoopOrder, 1, n)
    /\ (pc = "rise" => seq = LoopOrder \/ (seq = <<>> /\ rret = "header"))
    /\ (pc \in {"octl", "abus", "xfer", "check", "tristate", "fall"} =>
           seq # <<>> /\ LoopOrder[Len(seq) + 1] = pc)
    /\ (InHook => seq = SubSeq(LoopOrder, 1, 5))
    /\ (Blocked /\ "RWB" \notin octl /\ RAMADDR(addr) => ram[addr % RAMSIZE] = data)
C15_Witness ==
    /\ Blocked /\ "RWB" \notin octl /\ addr = 16 /\ data = 66 /\ ram[16] = 66
    /\ seq = SubSeq(LoopOrder, 1, 5)

\* C16: every PHI2 cycle the CPU sees, the cycles of reset() included, ends
\* with exactly one bus transaction serviced since its rising edge.
C16_OneTransactionPerCycle == [][Fell(ictl, ictl') => served = 1]_vars

\* C17: the data port is an output only in a bus cycle that reads (RWB high)
\* a RAM or ROM address, and it is an input again at every falling PHI2 edge,
\* those made by reset() on the command 'r' included.
C17_DrivesOnlyDecodedRead ==
    [][ /\ (dbus_ddr' = "out" =>
               "RWB" \in octl' /\ (RAMADDR(addr') \/ ROMADDR(addr')))
        /\ (Fell(ictl, ictl') => dbus_ddr = "in") ]_vars
\* control has passed the cli() of loop()
LoopStarted == pc \notin {"setup", "header", "cli"} /\ ~(pc \in ResetPcs /\ rret = "header")

\* C18: once loop() has started, interrupts are disabled at every PHI2 edge
\* and while a bus transaction is serviced, and they are enabled only inside
\* debug() around its wait for a byte.
C18_InterruptsOffAtEdges ==
    [][ LoopStarted =>
          /\ (Rose(ictl, ictl') \/ Fell(ictl, ictl') => ~ints)
          /\ (pc \in {"octl", "abus", "xfer"} => ~ints)
          /\ (ints => pc \in {"print", "while", "read", "exit"} \cup ResetPcs) ]_vars

\* C19: after setup() has written the control port, RDY, IRQB, NMIB, SOB and
\* BE are high in every state: clock and reset steps change only PHI2 and
\* RESB; and RESB is high in every state outside reset().
C19_ControlLinesHeld ==
    [][ /\ (pc' # "setup" => {"RDY", "IRQB", "NMIB", "SOB", "BE"} \subseteq ictl')
        /\ (pc' \notin ResetPcs \cup {"setup"} => "RESB" \in ictl')
        /\ (pc # "setup" => ictl' \ {"PHI2", "RESB"} = ictl \ {"PHI2", "RESB"}) ]_vars
C19_Witness ==
    /\ pc = "cc_fall" /\ rret = "exit" /\ rphase = 0
    /\ ictl = {"RDY", "IRQB", "NMIB", "SOB", "BE", "PHI2"}

\* C20: in one bus cycle at most one command takes effect; after the byte
\* that takes effect debug() reads no further byte in that cycle, and the
\* bytes still pending stay pending and are read later in order of arrival.
C20_OneCommandPerCycle ==
    [][ /\ ncmd' <= 1
        /\ (ncmd = 1 => Len(ring') >= Len(ring))
        /\ pend' = ring' \o hw'
        /\ (Len(ring') < Len(ring) => Head(ring) = Head(pend)) ]_vars
C20_Witness ==
    /\ pc = "exit" /\ ncmd = 1 /\ lastCmd = "s" /\ scen = 2
    /\ ring = <<"c">> /\ pend = <<"c">>
====
